---- MODULE Spec2Model ----
(***************************************************************************)
(* Recommendation resolution pipeline of recommend-me-something-backend:   *)
(* the four suggest endpoints, the completion client, the book and movie   *)
(* catalog resolvers, the trailer lookup and the book query cache store.   *)
(* A request handler is an `async def` without any await, so one handler   *)
(* runs to completion before the next starts: one action per handler.      *)
(* Server processes that share the database do run side by side; for them  *)
(* the book batch handler is split at its reads and its commit (SpecRace).  *)
(***************************************************************************)
EXTENDS Integers, Sequences, FiniteSets, TLC

VARIABLES
    books,          \* table "books": row id = index, [title, author, cover_image_url, preview_url]
    book_searches,  \* table "book_searches": row id = index, [query, search_count, books (ids)]
    req,            \* the last request and what its upstream calls answered
    resp,           \* the response to the last request and the calls it made
    nreq,           \* number of requests handled so far
    txn,            \* per server process: the book batch request it is in the middle of
    genre_fetches,  \* calls of the genre-list endpoint since the process started
    call,           \* one function of the program, its argument and what it gave
    inflight        \* a request followed call by call: the upstream call it waits for

vars == <<books, book_searches, req, resp, nreq, txn, genre_fetches, call, inflight>>

(***************************************************************************)
(* Bounds                                                                  *)
(***************************************************************************)
MaxTitles == 3      \* longest title list the completion client returns
MaxRequests == 2    \* requests handled in one behaviour of one family of endpoints
MaxMixed == 1       \* requests handled in one behaviour when all four endpoints are mixed
MaxStored == 2      \* requests handled in one behaviour of the book batch and movie endpoints
MaxWorkers == 2     \* server processes that share the database, one request each

(***************************************************************************)
(* Program constants                                                       *)
(***************************************************************************)
MIN_LENGTH == 3

SP == " "
Absent == "<absent>"
NoTrailer == "None"
UnknownAuthor == "Unknown Author"
CoverPlaceholder == "assets/images/image-err.png"

Titles == {"A", "B"}

\* Raw values of the query parameter q, as sequences of characters.
RawQueries ==
    { <<"a", "a", "a">>,
      <<SP, "a", "a", "a", SP>>,
      <<"b", "b", "b">>,
      <<SP, SP, "a", SP, SP>>,
      <<"a", "a">> }

(***************************************************************************)
(* Helpers                                                                 *)
(***************************************************************************)
Range(s) == { s[i] : i \in 1..Len(s) }

SeqsUpTo(S, n) == UNION { [1..k -> S] : k \in 0..n }

\* str.strip(): drop leading and trailing whitespace.
RECURSIVE lstrip(_)
lstrip(s) == IF s # <<>> /\ Head(s) = SP THEN lstrip(Tail(s)) ELSE s

RECURSIVE rstrip(_)
rstrip(s) == IF s # <<>> /\ s[Len(s)] = SP THEN rstrip(SubSeq(s, 1, Len(s) - 1)) ELSE s

strip(s) == rstrip(lstrip(s))

\* Query(..., min_length=3): the framework validates the raw parameter.
QueryValid(q) == Len(q) >= MIN_LENGTH

(***************************************************************************)
(* Exceptions and results of calls                                         *)
(***************************************************************************)
\* The message of an exception is a fixed text of this program, or it embeds
\* str(e) of the exception an upstream client (requests, the openai SDK) raised.
FixedText == "text written in this program"
UpstreamText == "str(e) of the upstream client's exception"

Exc(cls) == [cls |-> cls, status |-> 0, text |-> FixedText]
HTTPException(status) == [cls |-> "HTTPException", status |-> status, text |-> FixedText]

\* ExternalAPIError(service, str(e))
ExternalAPIError(text) == [cls |-> "ExternalAPIError", status |-> 0, text |-> text]

\* HTTPException(status_code=status, detail=str(e))
HTTPExceptionOf(status, e) == [cls |-> "HTTPException", status |-> status, text |-> e.text]

Return(v) == [tag |-> "return", value |-> v]
Raise(e) == [tag |-> "raise", exc |-> e]

RecommendationErrors == {"ExternalAPIError", "InvalidQueryError", "RateLimitExceededError"}

\* Mutant of RouterExcept: the status codes of two clauses are exchanged.
RouterExceptSwapped(e) ==
    IF e.cls = "InvalidQueryError" THEN HTTPExceptionOf(400, e)
    ELSE IF e.cls = "RateLimitExceededError" THEN HTTPExceptionOf(503, e)
    ELSE IF e.cls = "ExternalAPIError" THEN HTTPExceptionOf(429, e)
    ELSE e

\* The except clauses that close every router handler.
RouterExcept(e) ==
    IF e.cls = "InvalidQueryError" THEN HTTPExceptionOf(400, e)
    ELSE IF e.cls = "RateLimitExceededError" THEN HTTPExceptionOf(429, e)
    ELSE IF e.cls = "ExternalAPIError" THEN HTTPExceptionOf(503, e)
    ELSE e

recommendation_exception_handler(e) ==
    IF e.cls = "RateLimitExceededError" THEN 429
    ELSE IF e.cls = "ExternalAPIError" THEN 503
    ELSE 400

http_exception_handler_custom(e) == e.status

global_exception_handler(e) == 500

\* app.add_exception_handler: the handler registered for the exception's class.
ExceptionHandlers(e) ==
    IF e.cls = "HTTPException" THEN http_exception_handler_custom(e)
    ELSE IF e.cls = "RequestValidationError" THEN 422
    ELSE IF e.cls \in RecommendationErrors THEN recommendation_exception_handler(e)
    ELSE global_exception_handler(e)

\* Status of a request whose handler body raised e.
StatusOfRaise(e) == ExceptionHandlers(RouterExcept(e))

\* The "message" of the JSON body the registered handler answers with:
\* exc.detail for an HTTPException, str(exc) for a RecommendationError, a
\* fixed sentence from the global handler and the validation handler.
MessageOf(e) ==
    IF e.cls = "HTTPException" \/ e.cls \in RecommendationErrors THEN e.text
    ELSE FixedText

\* Message of the response to a request whose handler body raised e.
MessageOfRaise(e) == MessageOf(RouterExcept(e))

(***************************************************************************)
(* Completion client (OpenAIService)                                       *)
(***************************************************************************)
\* What one openai.ChatCompletion.create call answers: api is "ok" or the
\* class of the exception it raises; for an "ok" call, reply says how the
\* text of the answer parses and value is what it parses to.
Completion(api, reply, value) == [api |-> api, reply |-> reply, value |-> value]

NoCompletion == Completion("not called", "", <<>>)

ApiFailures == {"RateLimitError", "OpenAIError", "Exception"}

\* What eval() of a text that is not a list literal does: it gives a value
\* that is not a list, or raises SyntaxError, or raises whatever the
\* expression in the text raises: NameError on a bare word; any class the
\* module names, for a text such as
\* (_ for _ in ()).throw(RateLimitExceededError()).
EvalFailures ==
    {"not a list", "SyntaxError", "NameError",
     "raises RateLimitExceededError", "raises ExternalAPIError"}

\* Answers to a list prompt: a failure of the call, or a text that eval()
\* turns into a list or into one of EvalFailures.
ListCompletions ==
    { Completion(f, "", <<>>) : f \in ApiFailures }
    \cup { Completion("ok", r, <<>>) : r \in EvalFailures }
    \cup { Completion("ok", "list", v) : v \in SeqsUpTo(Titles, MaxTitles) }

create_chat_completion(c) ==
    IF c.api = "RateLimitError" THEN Raise(Exc("RateLimitExceededError"))
    ELSE IF c.api = "OpenAIError" THEN Raise(ExternalAPIError(UpstreamText))
    ELSE IF c.api = "Exception" THEN Raise(Exc("ExternalAPIError"))
    ELSE Return(c)

\* eval(response) followed by the isinstance check and the two except layers:
\* except (SyntaxError, ValueError) raises InvalidQueryError, the outer
\* except (RateLimitExceededError, ExternalAPIError) re-raises, the outer
\* except Exception raises InvalidQueryError.
eval_list(c) ==
    IF c.reply = "list" THEN Return(c.value)
    ELSE IF c.reply \in {"SyntaxError", "not a list"} THEN Raise(Exc("InvalidQueryError"))
    ELSE IF c.reply = "raises RateLimitExceededError"
    THEN Raise(Exc("RateLimitExceededError"))
    ELSE IF c.reply = "raises ExternalAPIError" THEN Raise(Exc("ExternalAPIError"))
    ELSE Raise(Exc("InvalidQueryError"))

suggest_multiple_books(c) ==
    LET r == create_chat_completion(c)
    IN  IF r.tag = "raise" THEN r ELSE eval_list(r.value)

(***************************************************************************)
(* Book catalog resolver (GoogleBooksService)                              *)
(***************************************************************************)
\* One answer of the volumes endpoint.  transport is "ok" or the failure of
\* requests.get / raise_for_status; authorsKind says whether volumeInfo has
\* no "authors" key, a list, or a null.
GBResponse(transport, totalItems, hasItems, authorsKind, authors, thumbnail, previewLink) ==
    [transport |-> transport, totalItems |-> totalItems, hasItems |-> hasItems,
     authorsKind |-> authorsKind, authors |-> authors,
     thumbnail |-> thumbnail, previewLink |-> previewLink]

GBTimeout == GBResponse("timeout", 0, FALSE, "absent", <<>>, Absent, Absent)
GBZero == GBResponse("ok", 0, FALSE, "absent", <<>>, Absent, Absent)
GBFull == GBResponse("ok", 1, TRUE, "list", <<"X", "Y">>, "thumb.png", "preview.html")
GBBare == GBResponse("ok", 1, TRUE, "absent", <<>>, Absent, Absent)
GBNullAuthors == GBResponse("ok", 1, TRUE, "null", <<>>, "thumb.png", "preview.html")

\* The answers a batch request draws from.
BatchResponses == {GBTimeout, GBZero, GBFull, GBBare, GBNullAuthors}

\* Mutant of ReturnNone: nothing found is reported as an upstream failure.
ReturnNoneAsError == [tag |-> "raise", exc |-> Exc("ExternalAPIError")]

\* return None
ReturnNone == [tag |-> "none"]

get_book_details(title, r) ==
    IF r.transport # "ok" THEN Raise(ExternalAPIError(UpstreamText))
    ELSE IF r.totalItems = 0 THEN ReturnNone
    ELSE IF ~r.hasItems THEN Raise(Exc("ExternalAPIError"))
    ELSE IF r.authorsKind = "null" THEN Raise(Exc("TypeError"))
    ELSE IF r.authorsKind = "list" /\ r.authors = <<>> THEN Raise(Exc("ExternalAPIError"))
    ELSE Return([title |-> title,
                 author |-> IF r.authorsKind = "absent" THEN UnknownAuthor ELSE r.authors[1],
                 cover_image_url |-> IF r.thumbnail = Absent THEN CoverPlaceholder ELSE r.thumbnail,
                 preview_url |-> IF r.previewLink = Absent THEN "" ELSE r.previewLink])

(***************************************************************************)
(* Query cache store (BookService over a Session with autoflush=False)     *)
(***************************************************************************)
\* Mutant of get_book_search_by_query: the lookup never finds a record.
get_book_search_never(searches, query) == 0

\* .filter(BookSearch.query == query).first(): the id of the first matching
\* record, 0 for None.
get_book_search_by_query(searches, query) ==
    IF \E i \in 1..Len(searches) : searches[i].query = query
    THEN CHOOSE i \in 1..Len(searches) :
            /\ searches[i].query = query
            /\ \A j \in 1..(i - 1) : searches[j].query # query
    ELSE 0

\* Mutant of get_book_by_title: the lookup never finds a row.
get_book_by_title_never(rows, pending, title) == 0

\* .filter(Book.title == title).first(). The session does not autoflush: the
\* SELECT sees the rows of the table and none of the Book objects added to the
\* session during this request.
get_book_by_title(rows, pending, title) ==
    IF \E i \in 1..Len(rows) : rows[i].title = title
    THEN CHOOSE i \in 1..Len(rows) :
            /\ rows[i].title = title
            /\ \A j \in 1..(i - 1) : rows[j].title # title
    ELSE 0

\* An entry of book_search.books: a row of the table or an object still pending.
RowRef(id) == [new |-> FALSE, k |-> id]
NewRef(k) == [new |-> TRUE, k |-> k]

\* The for loop of create_book_search over book_titles.
RECURSIVE ProcessTitles(_, _, _, _)
ProcessTitles(rows, titles, cat, acc) ==
    IF titles = <<>> \/ acc.exc # "none" THEN acc
    ELSE LET t == Head(titles)
             d == get_book_details(t, cat[t])
             called == [acc EXCEPT !.ncat = @ + 1]
         IN  IF d.tag = "raise"
             THEN IF d.exc.cls = "ExternalAPIError"
                  THEN ProcessTitles(rows, Tail(titles), cat, called)
                  ELSE [called EXCEPT !.exc = d.exc.cls]
             ELSE IF d.tag = "none"
             THEN ProcessTitles(rows, Tail(titles), cat, called)
             ELSE LET id == get_book_by_title(rows, acc.pending, d.value.title)
                      ref == IF id # 0 THEN RowRef(id) ELSE NewRef(Len(acc.pending) + 1)
                      pending == IF id # 0 THEN acc.pending ELSE Append(acc.pending, d.value)
                      coll == IF ref \in Range(acc.coll) THEN acc.coll ELSE Append(acc.coll, ref)
                  IN  ProcessTitles(rows, Tail(titles), cat,
                          [called EXCEPT !.pending = pending, !.coll = coll,
                                         !.nstore = @ + 1])

\* Mutant of UniqueTitles: the column is declared without unique=True.
NoUniqueConstraint(rows) == TRUE

\* books.title is declared unique=True: the flush of db.commit() fails when
\* the inserted rows would give the table two rows with one title.
UniqueTitles(rows) ==
    \A i, j \in 1..Len(rows) : rows[i].title = rows[j].title => i = j

\* Mutant of search_count: a record that is reused keeps its count.
search_count_kept(searches, existing) ==
    IF existing = 0 THEN 1 ELSE searches[existing].search_count

\* Mutant of search_count: the count is set, not incremented.
search_count_reset(searches, existing) == 1

\* BookSearch(query=query, search_count=0) for a new record, then
\* book_search.search_count += 1.
search_count(searches, existing) ==
    (IF existing = 0 THEN 0 ELSE searches[existing].search_count) + 1

\* create_book_search: the state of the store after it and what it returns.
\* exc is "none", or the class of the exception that ended it (nothing is
\* committed then: the session is closed and the transaction rolled back).
create_book_search(rows, searches, query, titles, cat) ==
    LET existing == get_book_search_by_query(searches, query)
        start == [pending |-> <<>>,
                  coll |-> IF existing = 0 THEN <<>>
                           ELSE [i \in 1..Len(searches[existing].books) |->
                                    RowRef(searches[existing].books[i])],
                  exc |-> "none", ncat |-> 0, nstore |-> 1]
        acc == ProcessTitles(rows, titles, cat, start)
        inserted == rows \o acc.pending
        ids == [i \in 1..Len(acc.coll) |->
                   IF acc.coll[i].new THEN Len(rows) + acc.coll[i].k ELSE acc.coll[i].k]
        count == search_count(searches, existing)
        row == [query |-> query, search_count |-> count, books |-> ids]
        unchanged == [books |-> rows, book_searches |-> searches, result |-> <<>>]
    IN  IF acc.exc # "none"
        THEN unchanged @@ [exc |-> acc.exc, ncat |-> acc.ncat, nstore |-> acc.nstore]
        ELSE IF ~UniqueTitles(inserted)
        THEN unchanged @@ [exc |-> "IntegrityError", ncat |-> acc.ncat, nstore |-> acc.nstore + 1]
        ELSE [books |-> inserted,
              book_searches |-> IF existing = 0 THEN Append(searches, row)
                                ELSE [searches EXCEPT ![existing] = row],
              result |-> ids,
              exc |-> "none", ncat |-> acc.ncat, nstore |-> acc.nstore + 2]

\* BookSchema serialisation of rows of the books table.
BookBody(rows, ids) ==
    [i \in 1..Len(ids) |->
        [id |-> ids[i], title |-> rows[ids[i]].title, author |-> rows[ids[i]].author,
         cover_image_url |-> rows[ids[i]].cover_image_url,
         preview_url |-> rows[ids[i]].preview_url]]

(***************************************************************************)
(* Single-suggestion intents of the completion client                      *)
(***************************************************************************)
\* Answers to the single-book prompt: the literal err, a text that does not
\* split in two at '|', or <title>|<rationale>.
SingleBookCompletions ==
    { Completion(f, "", <<>>) : f \in ApiFailures }
    \cup { Completion("ok", r, <<>>) : r \in {"err", "malformed"} }
    \cup { Completion("ok", "pair", <<t, "why">>) : t \in Titles }

suggest_single_book(c) ==
    LET r == create_chat_completion(c)
    IN  IF r.tag = "raise" THEN r
        ELSE IF c.reply = "err" THEN Raise(Exc("InvalidQueryError"))
        ELSE IF c.reply # "pair" THEN Raise(Exc("InvalidQueryError"))
        ELSE Return(c.value)

SingleMovieCompletions ==
    { Completion(f, "", <<>>) : f \in ApiFailures }
    \cup { Completion("ok", "err", <<>>) }
    \cup { Completion("ok", "title", <<t>>) : t \in Titles }

suggest_single_movie(c) ==
    LET r == create_chat_completion(c)
    IN  IF r.tag = "raise" THEN r
        ELSE IF c.reply = "err" THEN Raise(Exc("InvalidQueryError"))
        ELSE Return(c.value[1])

suggest_multiple_movies(c) ==
    LET r == create_chat_completion(c)
    IN  IF r.tag = "raise" THEN r ELSE eval_list(r.value)

(***************************************************************************)
(* Trailer lookup (YouTubeService)                                         *)
(***************************************************************************)
\* One answer of the video search: transport as for the book catalog; shape
\* is the shape of the JSON payload.
YTResponse(transport, shape) == [transport |-> transport, shape |-> shape]

YTVideo == YTResponse("ok", "video")
YTEmpty == YTResponse("ok", "no items")
YTTimeout == YTResponse("timeout", "")
YTHttpError == YTResponse("http error", "")
YTNoVideoId == YTResponse("ok", "id without videoId")
YTIdIsString == YTResponse("ok", "id is a string")
YTNotAnObject == YTResponse("ok", "payload is a list")

TrailerResponses ==
    {YTVideo, YTEmpty, YTTimeout, YTHttpError, YTNoVideoId, YTIdIsString, YTNotAnObject}

TrailerUrl == "https://www.youtube.com/watch?v=vid"

\* except (requests.RequestException, KeyError, IndexError): return "None"
get_trailer_url(title, y) ==
    IF y.transport # "ok" THEN Return(NoTrailer)
    ELSE IF y.shape = "payload is a list" THEN Raise(Exc("AttributeError"))
    ELSE IF y.shape = "no items" THEN Return(NoTrailer)
    ELSE IF y.shape = "id without videoId" THEN Return(NoTrailer)
    ELSE IF y.shape = "id is a string" THEN Raise(Exc("TypeError"))
    ELSE Return(TrailerUrl)

(***************************************************************************)
(* Movie catalog resolver (TMDBService)                                    *)
(***************************************************************************)
TMDBResponse(transport, results, poster_path, genre_ids) ==
    [transport |-> transport, results |-> results, title |-> "first result",
     poster_path |-> poster_path, genre_ids |-> genre_ids]

TMTimeout == TMDBResponse("timeout", "", Absent, <<>>)
TMZero == TMDBResponse("ok", "empty", Absent, <<>>)
TMFull == TMDBResponse("ok", "one", "p.jpg", <<28, 99>>)
TMBare == TMDBResponse("ok", "one", Absent, <<>>)

MovieResponses == {TMTimeout, TMZero, TMFull, TMBare}

\* Answers of the genre-list endpoint; the list names genre 28 only.
GenreResponses == {"ok", "timeout"}
GenreList == (28 :> "Action")
NoGenreCache == [loaded |-> FALSE, map |-> <<>>]

\* Mutant of get_genres: a failed fetch leaves _genre_cache at None.
get_genres_unmarked(cache, g) ==
    IF cache.loaded THEN [cache |-> cache, fetched |-> 0]
    ELSE IF g = "ok" THEN [cache |-> [loaded |-> TRUE, map |-> GenreList], fetched |-> 1]
    ELSE [cache |-> [loaded |-> FALSE, map |-> <<>>], fetched |-> 1]

\* _get_genres on an instance whose _genre_cache is cache: the cache after it
\* and the number of calls of the genre-list endpoint.
get_genres(cache, g) ==
    IF cache.loaded THEN [cache |-> cache, fetched |-> 0]
    ELSE IF g = "ok" THEN [cache |-> [loaded |-> TRUE, map |-> GenreList], fetched |-> 1]
    ELSE [cache |-> [loaded |-> TRUE, map |-> <<>>], fetched |-> 1]

get_genre_name(map, genre_id) ==
    IF genre_id \in DOMAIN map THEN map[genre_id] ELSE "Unknown Genre"

PosterUrl(poster_path) ==
    IF poster_path = Absent THEN Absent ELSE "https://image.tmdb.org/t/p/original/" \o poster_path

\* search_movie: its result, the instance's genre cache after it, and the
\* calls of the genre-list endpoint it made.
search_movie(title, m, g, cache) ==
    IF m.transport # "ok"
    THEN [res |-> Raise(ExternalAPIError(UpstreamText)), cache |-> cache, fetched |-> 0]
    ELSE IF m.results = "empty"
    THEN [res |-> Raise(Exc("ExternalAPIError")), cache |-> cache, fetched |-> 0]
    ELSE LET gs == IF m.genre_ids = <<>> THEN [cache |-> cache, fetched |-> 0]
                   ELSE get_genres(cache, g)
         IN  [res |-> Return([title |-> m.title,
                              poster_url |-> PosterUrl(m.poster_path),
                              genre_names |-> [i \in 1..Len(m.genre_ids) |->
                                  get_genre_name(gs.cache.map, m.genre_ids[i])]]),
              cache |-> gs.cache, fetched |-> gs.fetched]

\* Mutant of get_movie_details: a trailer lookup that found nothing is made
\* a second time.
get_movie_details_retrying(title, m, g, tr, cache) ==
    LET s == search_movie(title, m, g, cache)
        t == get_trailer_url(title, tr[title])
    IN  IF s.res.tag = "raise"
        THEN [res |-> s.res, cache |-> s.cache,
              fetched |-> s.fetched, trailers |-> 0]
        ELSE IF t.tag = "raise"
        THEN [res |-> Raise(Exc("ExternalAPIError")), cache |-> s.cache,
              fetched |-> s.fetched, trailers |-> 1]
        ELSE [res |-> Return(s.res.value @@ [trailer_url |-> t.value]), cache |-> s.cache,
              fetched |-> s.fetched, trailers |-> IF t.value = NoTrailer THEN 2 ELSE 1]

\* Mutant of get_movie_details: a failed catalog lookup is remapped to the
\* not-found exception of the routers.
get_movie_details_remap(title, m, g, tr, cache) ==
    LET s == search_movie(title, m, g, cache)
        t == get_trailer_url(title, tr[title])
    IN  IF s.res.tag = "raise"
        THEN [res |-> Raise(HTTPException(404)), cache |-> s.cache,
              fetched |-> s.fetched, trailers |-> 0]
        ELSE IF t.tag = "raise"
        THEN [res |-> Raise(Exc("ExternalAPIError")), cache |-> s.cache,
              fetched |-> s.fetched, trailers |-> 1]
        ELSE [res |-> Return(s.res.value @@ [trailer_url |-> t.value]), cache |-> s.cache,
              fetched |-> s.fetched, trailers |-> 1]

\* MovieService.get_movie_details: catalog lookup, then trailer lookup; an
\* ExternalAPIError is re-raised as it is, any other exception is wrapped into
\* an ExternalAPIError with a message of its own.
get_movie_details(title, m, g, tr, cache) ==
    LET s == search_movie(title, m, g, cache)
        t == get_trailer_url(title, tr[title])
    IN  IF s.res.tag = "raise"
        THEN [res |-> s.res, cache |-> s.cache,
              fetched |-> s.fetched, trailers |-> 0]
        ELSE IF t.tag = "raise"
        THEN [res |-> Raise(Exc("ExternalAPIError")), cache |-> s.cache,
              fetched |-> s.fetched, trailers |-> 1]
        ELSE [res |-> Return(s.res.value @@ [trailer_url |-> t.value]), cache |-> s.cache,
              fetched |-> s.fetched, trailers |-> 1]

\* The for loop of suggest_movies over enumerate(movie_titles, 1).
RECURSIVE MovieLoop(_, _, _, _, _, _)
MovieLoop(titles, idx, cat, g, tr, acc) ==
    IF idx > Len(titles) THEN acc
    ELSE LET t == titles[idx]
             d == get_movie_details(t, cat[t], g, tr, acc.cache)
             called == [acc EXCEPT !.cache = d.cache, !.ncat = @ + 1,
                                   !.ngenre = @ + d.fetched, !.ntrailer = @ + d.trailers]
         IN  IF d.res.tag = "raise"
             THEN MovieLoop(titles, idx + 1, cat, g, tr, called)
             ELSE MovieLoop(titles, idx + 1, cat, g, tr,
                      [called EXCEPT !.body = Append(@, d.res.value @@ [id |-> idx]),
                                     !.kept = Append(@, idx)])

(***************************************************************************)
(* Requests and responses                                                  *)
(***************************************************************************)
Calls(completion, catalog, genre, trailer, store) ==
    [completion |-> completion, catalog |-> catalog, genre |-> genre,
     trailer |-> trailer, store |-> store]

NoCalls == Calls(0, 0, 0, 0, 0)

Request(op, q, c, cat, g, tr) ==
    [op |-> op, q |-> q, completion |-> c, catalog |-> cat, genre |-> g, trailer |-> tr]

\* A handler that returned body: 200.
Success(body, kept, calls) ==
    [status |-> 200, raised |-> "none", message |-> "", body |-> body, kept |-> kept,
     calls |-> calls]

\* A handler whose body raised e.
Failure(e, calls) ==
    [status |-> StatusOfRaise(e), raised |-> e.cls, message |-> MessageOfRaise(e),
     body |-> <<>>, kept |-> <<>>, calls |-> calls]

\* The framework rejects the request before the handler is entered.
Rejected ==
    [status |-> ExceptionHandlers(Exc("RequestValidationError")),
     raised |-> "RequestValidationError",
     message |-> MessageOf(Exc("RequestValidationError")),
     body |-> <<>>, kept |-> <<>>, calls |-> NoCalls]

NoRequest == Request("none", <<>>, NoCompletion, <<>>, "not called", <<>>)
NoResponse ==
    [status |-> 0, raised |-> "none", message |-> "", body |-> <<>>, kept |-> <<>>,
     calls |-> NoCalls]

\* No request is being handled.
Idle == req = NoRequest

\* Server processes started on one DATABASE_URL.
Workers == 1..MaxWorkers

\* A process is between requests, or inside suggest_books after the router's
\* cache lookup ("missed"), or inside create_book_search before db.commit()
\* ("prepared") with the objects its session holds: the record it found
\* (existing, 0 for a new BookSearch), the count it will write, the Book
\* objects it added (pending) and the entries it appended to the record's
\* books (added; base is the number of Book rows it saw), or it has answered
\* ("done").
Txn(pc, query, existing, count, base, seen, pending, added, doomed, status) ==
    [pc |-> pc, query |-> query, existing |-> existing, count |-> count, base |-> base,
     seen |-> seen, pending |-> pending, added |-> added, doomed |-> doomed,
     status |-> status]

NoTxn == Txn("idle", <<>>, 0, 0, 0, 0, <<>>, <<>>, FALSE, 0)
Missed(query) == Txn("missed", query, 0, 0, 0, 0, <<>>, <<>>, FALSE, 0)
Done(status) == Txn("done", <<>>, 0, 0, 0, 0, <<>>, <<>>, FALSE, status)
Answered(query, status) == Txn("done", query, 0, 0, 0, 0, <<>>, <<>>, FALSE, status)

\* No function is being looked at on its own.
NotApplied == [tag |-> "not applied"]
NoCall == [fn |-> "none", arg |-> <<>>, out |-> NotApplied]

\* No request is being followed call by call.
NoTimeout == 0
NoFlight ==
    [op |-> "none", waits |-> "idle", timeout |-> NoTimeout, left |-> 0, found |-> 0,
     cached |-> FALSE, status |-> 0, responses |-> 0]

Init ==
    /\ books = <<>>
    /\ book_searches = <<>>
    /\ req = NoRequest
    /\ resp = NoResponse
    /\ nreq = 0
    /\ txn = [w \in Workers |-> NoTxn]
    /\ genre_fetches = 0
    /\ call = NoCall
    /\ inflight = NoFlight

\* The middleware hands the handler's response to the client: the request is over.
dispatch ==
    /\ ~Idle
    /\ req' = NoRequest
    /\ resp' = NoResponse
    /\ UNCHANGED <<books, book_searches, nreq, txn, genre_fetches, call, inflight>>

(***************************************************************************)
(* GET /books/suggest-many                                                 *)
(***************************************************************************)
\* Mutant of CacheHit: the test on the book set is inverted.
CacheHitWhenEmpty(searches, id) == id # 0 /\ searches[id].books = <<>>

\* Mutant of ServeCached: the fast path counts the hit.
ServeCachedCounting(rows, searches, id) ==
    [books |-> rows,
     book_searches |-> [searches EXCEPT ![id].search_count = @ + 1],
     result |-> searches[id].books]

\* if cached_search and cached_search.books
CacheHit(searches, id) == id # 0 /\ searches[id].books # <<>>

\* return cached_search.books: the store after the fast path and what it returns.
ServeCached(rows, searches, id) ==
    [books |-> rows, book_searches |-> searches, result |-> searches[id].books]

suggest_books ==
    /\ Idle
    /\ nreq' = nreq + 1
    /\ UNCHANGED <<txn, genre_fetches, call, inflight>>
    /\ \E q \in RawQueries :
        LET op == "books/suggest-many"
            query == strip(q)
            cached == get_book_search_by_query(book_searches, query)
        IN  IF ~QueryValid(q)
            THEN /\ req' = Request(op, q, NoCompletion, <<>>, "not called", <<>>)
                 /\ resp' = Rejected
                 /\ UNCHANGED <<books, book_searches>>
            ELSE IF CacheHit(book_searches, cached)
            THEN LET r == ServeCached(books, book_searches, cached)
                 IN  /\ req' = Request(op, q, NoCompletion, <<>>, "not called", <<>>)
                     /\ resp' = Success(BookBody(r.books, r.result), <<>>, Calls(0, 0, 0, 0, 1))
                     /\ books' = r.books
                     /\ book_searches' = r.book_searches
            ELSE \E c \in ListCompletions :
                LET s == suggest_multiple_books(c)
                IN  IF s.tag = "raise"
                    THEN /\ req' = Request(op, q, c, <<>>, "not called", <<>>)
                         /\ resp' = Failure(s.exc, Calls(1, 0, 0, 0, 1))
                         /\ UNCHANGED <<books, book_searches>>
                    ELSE IF s.value = <<>>
                    THEN /\ req' = Request(op, q, c, <<>>, "not called", <<>>)
                         /\ resp' = Failure(HTTPException(404), Calls(1, 0, 0, 0, 1))
                         /\ UNCHANGED <<books, book_searches>>
                    ELSE \E cat \in [Range(s.value) -> BatchResponses] :
                        LET r == create_book_search(books, book_searches, query, s.value, cat)
                            calls == Calls(1, r.ncat, 0, 0, 1 + r.nstore)
                        IN  /\ req' = Request(op, q, c, cat, "not called", <<>>)
                            /\ books' = r.books
                            /\ book_searches' = r.book_searches
                            /\ resp' = IF r.exc # "none" THEN Failure(Exc(r.exc), calls)
                                       ELSE IF r.result = <<>>
                                       THEN Failure(HTTPException(404), calls)
                                       ELSE Success(BookBody(r.books, r.result), <<>>, calls)

(***************************************************************************)
(* GET /books/suggest                                                      *)
(***************************************************************************)
suggest_book ==
    /\ Idle
    /\ nreq' = nreq + 1
    /\ UNCHANGED <<txn, genre_fetches, call, inflight>>
    /\ UNCHANGED <<books, book_searches>>
    /\ \E q \in RawQueries :
        LET op == "books/suggest"
        IN  IF ~QueryValid(q)
            THEN /\ req' = Request(op, q, NoCompletion, <<>>, "not called", <<>>)
                 /\ resp' = Rejected
            ELSE \E c \in SingleBookCompletions :
                LET s == suggest_single_book(c)
                IN  IF s.tag = "raise"
                    THEN /\ req' = Request(op, q, c, <<>>, "not called", <<>>)
                         /\ resp' = Failure(s.exc, Calls(1, 0, 0, 0, 0))
                    ELSE \E cat \in [{s.value[1]} -> BatchResponses] :
                        LET d == get_book_details(s.value[1], cat[s.value[1]])
                            calls == Calls(1, 1, 0, 0, 0)
                        IN  /\ req' = Request(op, q, c, cat, "not called", <<>>)
                            /\ resp' = IF d.tag = "raise" THEN Failure(d.exc, calls)
                                       ELSE IF d.tag = "none"
                                       THEN Failure(HTTPException(404), calls)
                                       ELSE Success(<<d.value @@ [description |-> s.value[2]]>>,
                                                    <<>>, calls)

(***************************************************************************)
(* GET /movies/suggest and GET /movies/suggest-many                        *)
(***************************************************************************)
\* The upstream calls a movie request makes depend on the catalog's answers:
\* the genre list is fetched for a result that has genre ids, the trailer is
\* looked up for a title the catalog resolved.
Resolves(m) == m.transport = "ok" /\ m.results # "empty"

GenreAnswers(titles, cat) ==
    IF \E t \in titles : Resolves(cat[t]) /\ cat[t].genre_ids # <<>>
    THEN GenreResponses ELSE {"not called"}

TrailerAnswers(titles, cat) == [{t \in titles : Resolves(cat[t])} -> TrailerResponses]

NewInstance ==
    [body |-> <<>>, kept |-> <<>>, cache |-> NoGenreCache,
     ncat |-> 0, ngenre |-> 0, ntrailer |-> 0]

\* Mutant of suggest_movie: a successful suggestion is recorded in the store
\* and a recorded query is answered without a completion call.
suggest_movie_persisting ==
    /\ Idle
    /\ nreq' = nreq + 1
    /\ UNCHANGED <<txn, call, inflight>>
    /\ books' = books
    /\ \E q \in RawQueries :
        LET op == "movies/suggest"
            known == get_book_search_by_query(book_searches, strip(q))
        IN  IF ~QueryValid(q)
            THEN /\ req' = Request(op, q, NoCompletion, <<>>, "not called", <<>>)
                 /\ resp' = Rejected
                 /\ book_searches' = book_searches
            ELSE IF known # 0
            THEN /\ req' = Request(op, q, NoCompletion, <<>>, "not called", <<>>)
                 /\ resp' = Failure(HTTPException(404), NoCalls)
                 /\ book_searches' = book_searches
            ELSE \E c \in SingleMovieCompletions :
                LET s == suggest_single_movie(c)
                IN  IF s.tag = "raise"
                    THEN /\ req' = Request(op, q, c, <<>>, "not called", <<>>)
                         /\ resp' = Failure(s.exc, Calls(1, 0, 0, 0, 0))
                         /\ book_searches' = book_searches
                    ELSE \E cat \in [{s.value} -> MovieResponses] :
                         \E g \in GenreAnswers({s.value}, cat) :
                         \E tr \in TrailerAnswers({s.value}, cat) :
                        LET d == get_movie_details(s.value, cat[s.value], g, tr, NoGenreCache)
                            calls == Calls(1, 1, d.fetched, d.trailers, 1)
                        IN  /\ req' = Request(op, q, c, cat, g, tr)
                            /\ resp' = IF d.res.tag = "raise" THEN Failure(d.res.exc, calls)
                                       ELSE Success(<<d.res.value>>, <<1>>, calls)
                            /\ book_searches' =
                                   IF d.res.tag = "raise" THEN book_searches
                                   ELSE Append(book_searches,
                                               [query |-> strip(q), search_count |-> 1,
                                                books |-> <<>>])
    /\ genre_fetches' = genre_fetches + resp'.calls.genre

suggest_movie ==
    /\ Idle
    /\ nreq' = nreq + 1
    /\ UNCHANGED <<txn, call, inflight>>
    /\ UNCHANGED <<books, book_searches>>
    /\ \E q \in RawQueries :
        LET op == "movies/suggest"
        IN  IF ~QueryValid(q)
            THEN /\ req' = Request(op, q, NoCompletion, <<>>, "not called", <<>>)
                 /\ resp' = Rejected
            ELSE \E c \in SingleMovieCompletions :
                LET s == suggest_single_movie(c)
                IN  IF s.tag = "raise"
                    THEN /\ req' = Request(op, q, c, <<>>, "not called", <<>>)
                         /\ resp' = Failure(s.exc, Calls(1, 0, 0, 0, 0))
                    ELSE \E cat \in [{s.value} -> MovieResponses] :
                         \E g \in GenreAnswers({s.value}, cat) :
                         \E tr \in TrailerAnswers({s.value}, cat) :
                        LET d == get_movie_details(s.value, cat[s.value], g, tr, NoGenreCache)
                            calls == Calls(1, 1, d.fetched, d.trailers, 0)
                        IN  /\ req' = Request(op, q, c, cat, g, tr)
                            /\ resp' = IF d.res.tag = "raise" THEN Failure(d.res.exc, calls)
                                       ELSE Success(<<d.res.value>>, <<1>>, calls)
    /\ genre_fetches' = genre_fetches + resp'.calls.genre

suggest_movies ==
    /\ Idle
    /\ nreq' = nreq + 1
    /\ UNCHANGED <<txn, call, inflight>>
    /\ UNCHANGED <<books, book_searches>>
    /\ \E q \in RawQueries :
        LET op == "movies/suggest-many"
        IN  IF ~QueryValid(q)
            THEN /\ req' = Request(op, q, NoCompletion, <<>>, "not called", <<>>)
                 /\ resp' = Rejected
            ELSE \E c \in ListCompletions :
                LET s == suggest_multiple_movies(c)
                IN  IF s.tag = "raise"
                    THEN /\ req' = Request(op, q, c, <<>>, "not called", <<>>)
                         /\ resp' = Failure(s.exc, Calls(1, 0, 0, 0, 0))
                    ELSE IF s.value = <<>>
                    THEN /\ req' = Request(op, q, c, <<>>, "not called", <<>>)
                         /\ resp' = Failure(HTTPException(404), Calls(1, 0, 0, 0, 0))
                    ELSE \E cat \in [Range(s.value) -> MovieResponses] :
                         \E g \in GenreAnswers(Range(s.value), cat) :
                         \E tr \in TrailerAnswers(Range(s.value), cat) :
                        LET r == MovieLoop(s.value, 1, cat, g, tr, NewInstance)
                            calls == Calls(1, r.ncat, r.ngenre, r.ntrailer, 0)
                        IN  /\ req' = Request(op, q, c, cat, g, tr)
                            /\ resp' = IF r.body = <<>>
                                       THEN Failure(HTTPException(404), calls)
                                       ELSE Success(r.body, r.kept, calls)
    /\ genre_fetches' = genre_fetches + resp'.calls.genre

(***************************************************************************)
(* GET /books/suggest-many in several server processes on one database     *)
(***************************************************************************)
\* Within one process a handler runs from its first line to its response
\* without an await.  Processes that share the database run side by side:
\* each SELECT reads what is committed at that moment, and the slow calls
\* (completion, catalog) lie between a process's SELECTs and its commit.

\* suggest_books up to the router's cache lookup.
suggest_books_lookup(w) ==
    /\ txn[w].pc = "idle"
    /\ nreq' = nreq + 1
    /\ UNCHANGED <<books, book_searches, req, resp, genre_fetches, call, inflight>>
    /\ \E q \in RawQueries :
        LET query == strip(q)
            cached == get_book_search_by_query(book_searches, query)
        IN  txn' = [txn EXCEPT ![w] =
                       IF ~QueryValid(q) THEN Done(Rejected.status)
                       ELSE IF CacheHit(book_searches, cached) THEN Done(200)
                       ELSE Missed(query)]

\* The completion call and create_book_search up to db.commit(): the lookup
\* of the record and the loop over the titles, on what is committed now.
suggest_books_resolve(w) ==
    /\ txn[w].pc = "missed"
    /\ UNCHANGED <<books, book_searches, req, resp, nreq, genre_fetches, call, inflight>>
    /\ \E c \in ListCompletions :
        LET s == suggest_multiple_books(c)
        IN  IF s.tag = "raise"
            THEN txn' = [txn EXCEPT ![w] = Done(StatusOfRaise(s.exc))]
            ELSE IF s.value = <<>>
            THEN txn' = [txn EXCEPT ![w] = Done(StatusOfRaise(HTTPException(404)))]
            ELSE \E cat \in [Range(s.value) -> BatchResponses] :
                LET query == txn[w].query
                    existing == get_book_search_by_query(book_searches, query)
                    r == create_book_search(books, book_searches, query, s.value, cat)
                    had == IF existing = 0 THEN 0 ELSE Len(book_searches[existing].books)
                IN  txn' = [txn EXCEPT ![w] =
                        IF r.exc \notin {"none", "IntegrityError"}
                        THEN Done(StatusOfRaise(Exc(r.exc)))
                        ELSE Txn("prepared", query, existing,
                                 search_count(book_searches, existing),
                                 Len(books), Len(book_searches),
                                 SubSeq(r.books, Len(books) + 1, Len(r.books)),
                                 SubSeq(r.result, had + 1, Len(r.result)),
                                 r.exc = "IntegrityError", 0)]

\* db.commit() and the rest of suggest_books: the INSERTs and UPDATEs of the
\* session reach the tables as they are now; the unique index on books.title
\* rejects the commit when another process stored one of the titles meanwhile.
suggest_books_commit(w) ==
    /\ txn[w].pc = "prepared"
    /\ UNCHANGED <<req, resp, nreq, genre_fetches, call, inflight>>
    /\ LET t == txn[w]
           inserted == books \o t.pending
           added == [i \in 1..Len(t.added) |->
                       IF t.added[i] > t.base THEN t.added[i] - t.base + Len(books)
                       ELSE t.added[i]]
           row == IF t.existing = 0
                  THEN [query |-> t.query, search_count |-> t.count, books |-> added]
                  ELSE [query |-> t.query, search_count |-> t.count,
                        books |-> book_searches[t.existing].books \o added]
       IN  IF t.doomed \/ ~UniqueTitles(inserted)
           THEN /\ txn' = [txn EXCEPT ![w] =
                              Answered(t.query, StatusOfRaise(Exc("IntegrityError")))]
                /\ UNCHANGED <<books, book_searches>>
           ELSE /\ books' = inserted
                /\ book_searches' = IF t.existing = 0 THEN Append(book_searches, row)
                                    ELSE [book_searches EXCEPT ![t.existing] = row]
                /\ txn' = [txn EXCEPT ![w] =
                              Answered(t.query,
                                       IF row.books = <<>>
                                       THEN StatusOfRaise(HTTPException(404)) ELSE 200)]

(***************************************************************************)
(* Specifications                                                          *)
(***************************************************************************)
Next ==
    \/ nreq < MaxMixed /\ suggest_books
    \/ nreq < MaxMixed /\ suggest_book
    \/ nreq < MaxMixed /\ suggest_movie
    \/ nreq < MaxMixed /\ suggest_movies
    \/ dispatch

Spec == Init /\ [][Next]_vars

NextBooks ==
    \/ nreq < MaxRequests /\ suggest_books
    \/ nreq < MaxRequests /\ suggest_book
    \/ dispatch

SpecBooks == Init /\ [][NextBooks]_vars

NextMovies ==
    \/ nreq < MaxRequests /\ suggest_movie
    \/ nreq < MaxRequests /\ suggest_movies
    \/ dispatch

SpecMovies == Init /\ [][NextMovies]_vars

\* The endpoint that writes the store together with the movie endpoints.
NextStored ==
    \/ nreq < MaxStored /\ suggest_books
    \/ nreq < MaxStored /\ suggest_movie
    \/ nreq < MaxStored /\ suggest_movies
    \/ dispatch

SpecStored == Init /\ [][NextStored]_vars

\* Book batch requests of several server processes, one request each.
NextRace ==
    \E w \in Workers :
        \/ suggest_books_lookup(w)
        \/ suggest_books_resolve(w)
        \/ suggest_books_commit(w)

SpecRace == Init /\ [][NextRace]_vars

(***************************************************************************)
(* Properties                                                              *)
(***************************************************************************)
BooksMany == "books/suggest-many"
BooksOne == "books/suggest"
MoviesMany == "movies/suggest-many"
MoviesOne == "movies/suggest"

Ids(body) == [i \in 1..Len(body) |-> body[i].id]
TitlesOf(body) == [i \in 1..Len(body) |-> body[i].title]
StoredTitles(rows, ids) == [i \in 1..Len(ids) |-> rows[ids[i]].title]

\* C1: when the store holds a Book Search record for a query q (3 or more
\* characters, as every Recommendation Query) with a non-empty book set, a
\* GET /books/suggest-many whose parameter trims to q answers 200 with exactly
\* the books of that record, and calls neither the completion client nor the
\* book catalog resolver.
C1_CacheHitServesStoredBooks ==
    [][\A i \in 1..Len(book_searches) :
          ( /\ Idle
            /\ req'.op = BooksMany
            /\ strip(req'.q) = book_searches[i].query
            /\ Len(book_searches[i].query) >= MIN_LENGTH
            /\ book_searches[i].books # <<>> )
          => /\ resp'.status = 200
             /\ Ids(resp'.body) = book_searches[i].books
             /\ TitlesOf(resp'.body) = StoredTitles(books, book_searches[i].books)
             /\ resp'.calls.completion = 0
             /\ resp'.calls.catalog = 0]_vars

\* A padded repeat of a stored query was served its two stored books.
C1_Witness ==
    /\ req.op = BooksMany
    /\ req.q = <<SP, "a", "a", "a", SP>>
    /\ resp.status = 200
    /\ resp.calls.completion = 0
    /\ Len(resp.body) = 2

\* C7: in every state of the store, no Book Search record is associated with
\* two books of the same title.
C7_NoDuplicateTitlesInSearch ==
    \A s \in 1..Len(book_searches) :
        \A i, j \in 1..Len(book_searches[s].books) :
            i # j => books[book_searches[s].books[i]].title
                     # books[book_searches[s].books[j]].title

\* A title list that repeats a title was persisted with that title in it once.
C7_Witness ==
    /\ req.op = BooksMany
    /\ resp.status = 200
    /\ resp.calls.completion = 1
    /\ \E i, j \in 1..Len(req.completion.value) :
          /\ i # j
          /\ req.completion.value[i] = req.completion.value[j]
          /\ \E k \in 1..Len(resp.body) : resp.body[k].title = req.completion.value[i]

\* C8: a book suggest-many request served from the cache (answered 200 without
\* a completion call) leaves the books table and the book_searches table, hit
\* counts included, as they were.
C8_CacheHitReadOnly ==
    [][( /\ Idle
         /\ req'.op = BooksMany
         /\ resp'.status = 200
         /\ resp'.calls.completion = 0 )
       => /\ books' = books
          /\ book_searches' = book_searches]_vars

\* A request was served from a record whose hit count is still 1.
C8_Witness ==
    /\ req.op = BooksMany
    /\ req.q = <<"b", "b", "b">>
    /\ resp.status = 200
    /\ resp.calls.completion = 0
    /\ \E i \in 1..Len(book_searches) :
          /\ book_searches[i].query = <<"b", "b", "b">>
          /\ book_searches[i].search_count = 1

\* A catalog answer from which get_book_details builds a record.
BookResolves(r) ==
    /\ r.transport = "ok"
    /\ r.totalItems > 0
    /\ r.hasItems
    /\ \/ r.authorsKind = "absent"
       \/ r.authorsKind = "list" /\ r.authors # <<>>

\* The completion client returned a title list for the request.
ListReturned(r) == r.completion.api = "ok" /\ r.completion.reply = "list"

\* C2: on a fresh query (no Book Search record for it, no Book row for any
\* suggested title), when the suggested list repeats a title and the catalog
\* resolves every title, book suggest-many answers 200 with exactly one record
\* per distinct title.
C2_FreshBatchDedupes ==
    [][( /\ Idle
         /\ req'.op = BooksMany
         /\ ListReturned(req')
         /\ \E i, j \in 1..Len(req'.completion.value) :
               i # j /\ req'.completion.value[i] = req'.completion.value[j]
         /\ \A i \in 1..Len(book_searches) : book_searches[i].query # strip(req'.q)
         /\ \A i \in 1..Len(books) : books[i].title \notin Range(req'.completion.value)
         /\ \A t \in Range(req'.completion.value) : BookResolves(req'.catalog[t]) )
       => /\ resp'.status = 200
          /\ Range(TitlesOf(resp'.body)) = Range(req'.completion.value)
          /\ Len(resp'.body) = Cardinality(Range(req'.completion.value))]_vars

\* C3: the id fields of the array movie suggest-many returns are 1, 2, ..., k
\* in array order.
C3_SequentialIds ==
    (req.op = MoviesMany /\ resp.status = 200)
    => Ids(resp.body) = [i \in 1..Len(resp.body) |-> i]

\* C4: on every endpoint a request whose handler ends in InvalidQueryError is
\* answered 400, RateLimitExceededError 429, ExternalAPIError 503, the
\* handler's own not-found HTTPException 404 and any other exception 500, and
\* none of these statuses is answered for another kind.
C4_ErrorStatusMapping ==
    ~Idle =>
        /\ resp.raised = "InvalidQueryError" <=> resp.status = 400
        /\ resp.raised = "RateLimitExceededError" <=> resp.status = 429
        /\ resp.raised = "ExternalAPIError" <=> resp.status = 503
        /\ resp.raised = "HTTPException" <=> resp.status = 404
        /\ resp.raised \notin {"none", "RequestValidationError", "InvalidQueryError",
                               "RateLimitExceededError", "ExternalAPIError",
                               "HTTPException"} <=> resp.status = 500

\* A rate-limited completion call on the movie batch endpoint was answered 429.
C4_Witness ==
    /\ req.op = MoviesMany
    /\ req.completion.api = "RateLimitError"
    /\ resp.raised = "RateLimitExceededError"
    /\ resp.status = 429

\* C5: on every endpoint a request whose q is shorter than 3 characters after
\* trimming is rejected and calls neither an upstream service nor the store.
C5_ShortQueryRejected ==
    (~Idle /\ Len(strip(req.q)) < MIN_LENGTH)
    => /\ resp.status \in {400, 422}
       /\ resp.calls = NoCalls

\* The titles a movie request looks up, in order.
Suggested(r) ==
    IF r.op = MoviesMany /\ ListReturned(r) THEN r.completion.value
    ELSE IF r.op = MoviesOne /\ r.completion.api = "ok" /\ r.completion.reply = "title"
    THEN r.completion.value
    ELSE <<>>

\* C6: whatever way the video search fails, a movie the catalog resolved is
\* returned (single) or kept in the batch (many), with trailer_url "None".
C6_TrailerNeverFails ==
    \A p \in 1..Len(Suggested(req)) :
        ( /\ Resolves(req.catalog[Suggested(req)[p]])
          /\ req.trailer[Suggested(req)[p]] # YTVideo )
        => \E k \in 1..Len(resp.kept) :
              /\ resp.kept[k] = p
              /\ resp.body[k].trailer_url = NoTrailer

\* The book suggest-many request ended in one of the pipeline's error kinds.
EndsInError(r) == r.status \in {400, 404, 429, 503}

Upserted(old, new, key) ==
    IF \E i \in 1..Len(old) : old[i].query = key
    THEN \E i \in 1..Len(old) :
            /\ old[i].query = key
            /\ new = [old EXCEPT ![i].search_count = @ + 1]
    ELSE new = Append(old, [query |-> key, search_count |-> 1, books |-> <<>>])

C10_BatchTolerance ==
    ( /\ req.op = BooksMany
      /\ ListReturned(req)
      /\ \A t \in DOMAIN req.catalog :
            get_book_details(t, req.catalog[t]).tag = "raise"
            => get_book_details(t, req.catalog[t]).exc.cls = "ExternalAPIError" )
    => LET resolved == {t \in DOMAIN req.catalog : BookResolves(req.catalog[t])}
       IN  /\ resp.status = 404 <=> resolved = {}
           /\ resolved # {} => /\ resp.status = 200
                               /\ Range(TitlesOf(resp.body)) = resolved

\* The positions of the suggested list whose title the movie catalog resolves.
ResolvedPositions(r) ==
    SelectSeq([p \in 1..Len(r.completion.value) |-> p],
              LAMBDA p : Resolves(r.catalog[r.completion.value[p]]))

\* C11: when the completion client returns a title list, movie suggest-many
\* answers 404 exactly when the list is empty or the catalog resolves none of
\* its titles, and otherwise answers 200 with exactly the titles the catalog
\* resolved, in the order they were suggested.
C11_MovieBatchTolerance ==
    (req.op = MoviesMany /\ ListReturned(req))
    => /\ resp.status = 404 <=> ResolvedPositions(req) = <<>>
       /\ ResolvedPositions(req) # <<>> => /\ resp.status = 200
                                            /\ resp.kept = ResolvedPositions(req)

\* The completion client returned a title and a rationale for the request.
PairReturned(r) == r.completion.api = "ok" /\ r.completion.reply = "pair"

\* C12: a book suggest-one request never reads or writes the store (the books
\* and book_searches tables are unchanged); when the completion yields a
\* (title, rationale) pair and the catalog finds nothing it answers 404; when
\* the catalog resolves the title it answers 200 with the record of that title
\* carrying the rationale as its description.
C12_SuggestOneNoCaching ==
    [][(Idle /\ req'.op = BooksOne)
       => /\ books' = books
          /\ book_searches' = book_searches
          /\ resp'.calls.store = 0
          /\ \A t \in DOMAIN req'.catalog :
                /\ (PairReturned(req') /\ req'.catalog[t].transport = "ok"
                        /\ req'.catalog[t].totalItems = 0)
                   => resp'.status = 404
                /\ (PairReturned(req') /\ BookResolves(req'.catalog[t]))
                   => /\ resp'.status = 200
                      /\ Len(resp'.body) = 1
                      /\ resp'.body[1].title = req'.completion.value[1]
                      /\ resp'.body[1].description = req'.completion.value[2]]_vars

\* With a record already in the store, a single suggestion was answered with
\* the rationale attached.
C12_Witness ==
    /\ req.op = BooksOne
    /\ resp.status = 200
    /\ resp.body[1].description = "why"
    /\ book_searches # <<>>
    /\ books # <<>>

\* C13: when the movie catalog search answers with zero results, search_movie
\* raises ExternalAPIError and /movies/suggest answers 503 with that error,
\* never 404; when the book catalog answers with zero items, /books/suggest
\* answers 404 with the handler's own not-found exception.
C13_NotFoundAsymmetry ==
    \A t \in DOMAIN req.catalog :
        /\ ( /\ req.op = MoviesOne
             /\ req.catalog[t].transport = "ok"
             /\ req.catalog[t].results = "empty" )
           => /\ search_movie(t, req.catalog[t], req.genre, NoGenreCache).res
                    = Raise(Exc("ExternalAPIError"))
              /\ resp.raised = "ExternalAPIError"
              /\ resp.status = 503
        /\ ( /\ req.op = BooksOne
             /\ req.catalog[t].transport = "ok"
             /\ req.catalog[t].totalItems = 0 )
           => /\ resp.raised = "HTTPException"
              /\ resp.status = 404

\* A single movie suggestion whose catalog search found nothing was answered 503.
C13_Witness ==
    /\ req.op = MoviesOne
    /\ \E t \in DOMAIN req.catalog : req.catalog[t] = TMZero
    /\ resp.raised = "ExternalAPIError"
    /\ resp.status = 503

\* C14: on every endpoint, whatever fails upstream, the message of an error
\* response (400, 404, 429, 503 or 500) never carries the text of the
\* exception an upstream client raised.
C14_NoInternalExceptionText ==
    ~Idle => resp.message # UpstreamText

\* C15: a movie request (single or batch) for a query of 3 or more characters
\* leaves the books and book_searches tables as they were and calls the
\* completion client once, whatever requests came before it.
C15_MoviesNeverPersisted ==
    [][( /\ Idle
         /\ req'.op \in {MoviesOne, MoviesMany}
         /\ Len(strip(req'.q)) >= MIN_LENGTH )
       => /\ books' = books
          /\ book_searches' = book_searches
          /\ resp'.calls.store = 0
          /\ resp'.calls.completion = 1]_vars

\* After a book batch filled the store, a movie batch was answered from a
\* fresh completion call.
C15_Witness ==
    /\ req.op = MoviesMany
    /\ resp.status = 200
    /\ resp.calls.completion = 1
    /\ nreq = 2
    /\ book_searches # <<>>
    /\ books # <<>>

\* No two Book Search records have the same query.
OneRecordPerQuery(searches) ==
    \A i, j \in 1..Len(searches) : searches[i].query = searches[j].query => i = j

\* C16: with requests handled one after another, the store never holds two
\* Book Search records for one trimmed query; a book suggest-many request
\* whose query has a record creates none (the records and their queries stay
\* in place), and one whose query has no record creates at most one, for its
\* own query.
C16_OneSearchPerQuery ==
    /\ []OneRecordPerQuery(book_searches)
    /\ [][(Idle /\ req'.op = BooksMany)
          => /\ Len(book_searches') >= Len(book_searches)
             /\ \A i \in 1..Len(book_searches) :
                   book_searches'[i].query = book_searches[i].query
             /\ IF \E i \in 1..Len(book_searches) : book_searches[i].query = strip(req'.q)
                THEN Len(book_searches') = Len(book_searches)
                ELSE \/ Len(book_searches') = Len(book_searches)
                     \/ /\ Len(book_searches') = Len(book_searches) + 1
                        /\ book_searches'[Len(book_searches')].query = strip(req'.q)]_vars

\* The record a first request created without books was reused by a second
\* request for the same query, which filled it.
C16_Witness ==
    /\ req.op = BooksMany
    /\ resp.status = 200
    /\ resp.calls.completion = 1
    /\ Len(book_searches) = 1
    /\ book_searches[1].query = strip(req.q)
    /\ book_searches[1].search_count = 2

\* The hit count stored for key, 0 when no record has that query.
CountOf(searches, key) ==
    IF \E i \in 1..Len(searches) : searches[i].query = key
    THEN searches[CHOOSE i \in 1..Len(searches) : searches[i].query = key].search_count
    ELSE 0

\* The request went through create_book_search and its commit: the completion
\* client returned a non-empty list and the handler ended with the books or
\* with its second not-found.
Persisted(rq, rs) ==
    /\ rq.op = BooksMany
    /\ ListReturned(rq)
    /\ rq.completion.value # <<>>
    /\ rs.status \in {200, 404}

\* C17: every stored Book Search record has hit count 1 or more; no step
\* deletes a record or lowers a hit count; a request that persists through the
\* store raises the hit count of its query by exactly 1 (from 0 for a new
\* record) and leaves every other record's count alone; any other step leaves
\* all records as they are.
C17_HitCounterLifecycle ==
    /\ [](\A i \in 1..Len(book_searches) : book_searches[i].search_count >= 1)
    /\ [][/\ Len(book_searches') >= Len(book_searches)
          /\ \A i \in 1..Len(book_searches) :
                /\ book_searches'[i].query = book_searches[i].query
                /\ book_searches'[i].search_count >= book_searches[i].search_count
          /\ IF Idle /\ Persisted(req', resp')
             THEN /\ CountOf(book_searches', strip(req'.q))
                        = CountOf(book_searches, strip(req'.q)) + 1
                  /\ \A i \in 1..Len(book_searches) :
                        book_searches[i].query # strip(req'.q)
                        => book_searches'[i] = book_searches[i]
             ELSE book_searches' = book_searches]_vars

\* Two requests for one query both went through the store: its count is 2.
C17_Witness ==
    /\ Persisted(req, resp)
    /\ nreq = 2
    /\ CountOf(book_searches, strip(req.q)) = 2

\* The id of the Book row with the given title, 0 when there is none.
RowOfTitle(rows, title) ==
    IF \E i \in 1..Len(rows) : rows[i].title = title
    THEN CHOOSE i \in 1..Len(rows) : rows[i].title = title
    ELSE 0

\* C19: the books table never holds two rows with one title, and no step
\* changes a stored row.  When a book suggest-many request resolves a title
\* that already has a row, no row is added for that title, and a request that
\* persists associates its Book Search with the existing row; when every
\* suggested title resolves and already has a row, the request is answered 200
\* with those rows as stored and the books table is unchanged.
C19_BookIdentityByTitle ==
    /\ [](\A i, j \in 1..Len(books) : books[i].title = books[j].title => i = j)
    /\ [][/\ Len(books') >= Len(books)
          /\ \A i \in 1..Len(books) : books'[i] = books[i]
          /\ (Idle /\ req'.op = BooksMany /\ ListReturned(req'))
             => /\ \A t \in DOMAIN req'.catalog :
                      (BookResolves(req'.catalog[t]) /\ RowOfTitle(books, t) # 0)
                      => /\ \A j \in (Len(books) + 1)..Len(books') : books'[j].title # t
                         /\ Persisted(req', resp')
                            => \E s \in 1..Len(book_searches') :
                                  /\ book_searches'[s].query = strip(req'.q)
                                  /\ RowOfTitle(books, t) \in Range(book_searches'[s].books)
                /\ ( /\ req'.completion.value # <<>>
                     /\ \A t \in DOMAIN req'.catalog :
                           BookResolves(req'.catalog[t]) /\ RowOfTitle(books, t) # 0 )
                   => /\ resp'.status = 200
                      /\ books' = books
                      /\ \A k \in 1..Len(resp'.body) :
                            resp'.body[k].author = books[resp'.body[k].id].author]_vars

\* A second query resolved a stored title to a catalog entry without authors
\* and was answered with the author the first query stored.
C19_Witness ==
    /\ req.op = BooksMany
    /\ resp.status = 200
    /\ resp.calls.completion = 1
    /\ Len(book_searches) = 2
    /\ \E t \in DOMAIN req.catalog :
          /\ req.catalog[t] = GBBare
          /\ \E k \in 1..Len(resp.body) :
                /\ resp.body[k].title = t
                /\ resp.body[k].author = "X"
                /\ resp.body[k].id \in Range(book_searches[1].books)

\* C20: on all four suggest operations, a rate-limit failure of the completion
\* call ends the request in RateLimitExceededError, any other failure of the
\* call in ExternalAPIError, a successful call whose text does not parse in
\* InvalidQueryError, and InvalidQueryError is raised only after a successful
\* call.
C20_CompletionFailureClasses ==
    (~Idle /\ req.completion.api # "not called")
    => /\ req.completion.api = "RateLimitError" => resp.raised = "RateLimitExceededError"
       /\ req.completion.api \in {"OpenAIError", "Exception"}
          => resp.raised = "ExternalAPIError"
       /\ (req.completion.api = "ok" /\ req.completion.reply \notin {"list", "pair", "title"})
          => resp.raised = "InvalidQueryError"
       /\ resp.raised = "InvalidQueryError" => req.completion.api = "ok"

\* C18: a commit of a book batch request adds at most one Book Search record,
\* and when no record was committed between the request's lookup and its
\* commit (no interleaving) it leaves at most one record per query; two
\* records for one query arise only from a commit of a process whose lookup
\* found no record for the query and ran before another process committed one.
C18_DuplicateOnlyByInterleaving ==
    [][\A w \in Workers :
          (txn[w].pc = "prepared" /\ txn'[w].pc = "done")
          => /\ Len(book_searches') <= Len(book_searches) + 1
             /\ (Len(book_searches) = txn[w].seen /\ OneRecordPerQuery(book_searches))
                => OneRecordPerQuery(book_searches')
             /\ (OneRecordPerQuery(book_searches) /\ ~OneRecordPerQuery(book_searches'))
                => /\ txn[w].existing = 0
                   /\ Len(book_searches) > txn[w].seen
                   /\ \E i \in (txn[w].seen + 1)..Len(book_searches) :
                         book_searches[i].query = txn[w].query]_vars

\* Two processes looked the same unseen query up before either committed, and
\* both committed: the store holds two Book Search records for that query.
C18_Witness ==
    /\ \A w \in Workers : txn[w].pc = "done" /\ txn[w].status = 200
    /\ Len(book_searches) = 2
    /\ book_searches[1].query = book_searches[2].query
    /\ Len(book_searches[1].query) >= MIN_LENGTH

(***************************************************************************)
(* The completion client on the text of a reply                           *)
(***************************************************************************)
\* Texts are sequences of characters.  The texts of a reply to a
\* single-suggestion prompt: every text of at most MaxReply of these characters.
MaxReply == 4

ReplyChars == {"E", "e", "r", "|", SP, "'", "s", "\""}

Replies == SeqsUpTo(ReplyChars, MaxReply)

\* str.lower()
lower(s) == [i \in 1..Len(s) |-> IF s[i] = "E" THEN "e" ELSE s[i]]

\* str.replace(old, new): every occurrence of old, from the left, not overlapping.
RECURSIVE replace(_, _, _)
replace(s, old, new) ==
    IF Len(s) < Len(old) THEN s
    ELSE IF SubSeq(s, 1, Len(old)) = old
    THEN new \o replace(SubSeq(s, Len(old) + 1, Len(s)), old, new)
    ELSE <<Head(s)>> \o replace(Tail(s), old, new)

\* Mutant of split: str.split(sep, 1), the text is cut at the first separator only.
split_once(s, sep) ==
    IF \E i \in 1..Len(s) : s[i] = sep
    THEN LET k == CHOOSE i \in 1..Len(s) : s[i] = sep /\ \A j \in 1..(i - 1) : s[j] # sep
         IN  <<SubSeq(s, 1, k - 1), SubSeq(s, k + 1, Len(s))>>
    ELSE <<s>>

\* str.split(sep) for a separator of one character.
RECURSIVE split(_, _)
split(s, sep) ==
    IF \E i \in 1..Len(s) : s[i] = sep
    THEN LET k == CHOOSE i \in 1..Len(s) : s[i] = sep /\ \A j \in 1..(i - 1) : s[j] # sep
         IN  <<SubSeq(s, 1, k - 1)>> \o split(SubSeq(s, k + 1, Len(s)), sep)
    ELSE <<s>>

\* return response["choices"][0]["message"]["content"].strip()
message_content(content) == strip(content)

\* suggest_single_book on a call that answered content.
single_book_reply(content) ==
    LET response == replace(replace(message_content(content), <<"'", "s">>, <<"s">>),
                            <<"\"">>, <<>>)
        parts == split(response, "|")
    IN  IF lower(response) = <<"e", "r", "r">> THEN Raise(Exc("InvalidQueryError"))
        ELSE IF Len(parts) # 2 THEN Raise(Exc("InvalidQueryError"))
        ELSE Return(<<strip(parts[1]), strip(parts[2])>>)

\* suggest_single_movie on a call that answered content.
single_movie_reply(content) ==
    LET response == strip(replace(message_content(content), <<"\"">>, <<>>))
    IN  IF lower(response) \in {<<"e", "r", "r">>, <<"e", "r", "r", "o", "r">>}
        THEN Raise(Exc("InvalidQueryError"))
        ELSE Return(response)

Applied(fn, out) == call' = [fn |-> fn, arg |-> call.arg, out |-> out]

apply_suggest_single_book ==
    /\ call.fn = "none"
    /\ Applied("suggest_single_book", single_book_reply(call.arg))
    /\ UNCHANGED <<books, book_searches, req, resp, nreq, txn, genre_fetches, inflight>>

apply_suggest_single_movie ==
    /\ call.fn = "none"
    /\ Applied("suggest_single_movie", single_movie_reply(call.arg))
    /\ UNCHANGED <<books, book_searches, req, resp, nreq, txn, genre_fetches, inflight>>

\* Everything but call is as in Init.
Untouched ==
    /\ books = <<>>
    /\ book_searches = <<>>
    /\ req = NoRequest
    /\ resp = NoResponse
    /\ nreq = 0
    /\ txn = [w \in Workers |-> NoTxn]
    /\ genre_fetches = 0
    /\ inflight = NoFlight

InitReply ==
    /\ Untouched
    /\ call \in {[fn |-> "none", arg |-> t, out |-> NotApplied] : t \in Replies}

NextReply ==
    \/ apply_suggest_single_book
    \/ apply_suggest_single_movie

SpecReply == InitReply /\ [][NextReply]_vars

\* The text suggest_single_book looks at: the reply without its "'s" -> "s"
\* and without double quotes.
Cleaned(t) == replace(replace(strip(t), <<"'", "s">>, <<"s">>), <<"\"">>, <<>>)

Bars(t) == {i \in 1..Len(t) : t[i] = "|"}

\* C21: on the cleaned reply, suggest_single_book raises InvalidQueryError when
\* the text is "err" in any letter case, raises InvalidQueryError when the text
\* holds no '|' or two and more, and returns (trimmed text before the '|',
\* trimmed text after it) when the text holds exactly one '|'.
C21_SingleBookReplyParsing ==
    call.fn = "suggest_single_book" =>
        LET t == Cleaned(call.arg)
            invalid == call.out.tag = "raise" /\ call.out.exc.cls = "InvalidQueryError"
        IN  /\ lower(t) = <<"e", "r", "r">> => invalid
            /\ Cardinality(Bars(t)) # 1 => invalid
            /\ Cardinality(Bars(t)) = 1 =>
                   LET k == CHOOSE i \in Bars(t) : TRUE
                   IN  call.out = Return(<<strip(SubSeq(t, 1, k - 1)),
                                           strip(SubSeq(t, k + 1, Len(t)))>>)

\* C21 witness: a quoted reply with one '|' was split into title and rationale.
C21_Witness ==
    /\ call.fn = "suggest_single_book"
    /\ call.arg = <<"\"", "E", "|", "r">>
    /\ call.out = Return(<<(<<"E">>), (<<"r">>)>>)

(***************************************************************************)
(* eval(response) on the text of a reply to a list prompt                  *)
(***************************************************************************)
\* The texts of a reply to a list prompt: every text of at most MaxList of
\* these characters.  Over them a Python expression is a number, a name, a
\* string literal (quoted or triple-quoted, adjacent literals concatenate), a
\* list display, a subscription of one of these, or several of them separated
\* by commas (a tuple).
MaxList == 5

ListChars == {"[", "]", "'", "\"", "s", ",", "1", SP}

ListReplies == SeqsUpTo(ListChars, MaxList)

Tok(k, v) == [k |-> k, v |-> v]

\* The index after the longest run of characters of S that starts at s[i].
RunEnd(s, i, S) ==
    CHOOSE j \in i..(Len(s) + 1) :
        /\ \A k \in i..(j - 1) : s[k] \in S
        /\ j = Len(s) + 1 \/ s[j] \notin S

\* The tokens of an expression; ok is FALSE where the tokenizer raises
\* SyntaxError (a letter that follows a number, a string that is not closed).
RECURSIVE tokenize(_, _, _)
tokenize(s, i, acc) ==
    IF i > Len(s) THEN [ok |-> TRUE, toks |-> acc]
    ELSE IF s[i] = SP THEN tokenize(s, i + 1, acc)
    ELSE IF s[i] \in {"[", "]", ","} THEN tokenize(s, i + 1, Append(acc, Tok(s[i], <<>>)))
    ELSE IF s[i] = "1"
    THEN LET j == RunEnd(s, i, {"1"})
         IN  IF j <= Len(s) /\ s[j] = "s" THEN [ok |-> FALSE, toks |-> <<>>]
             ELSE tokenize(s, j, Append(acc, Tok("num", SubSeq(s, i, j - 1))))
    ELSE IF s[i] = "s"
    THEN LET j == RunEnd(s, i, {"s", "1"})
         IN  tokenize(s, j, Append(acc, Tok("name", SubSeq(s, i, j - 1))))
    ELSE LET q == s[i]
             triple == i + 2 <= Len(s) /\ s[i + 1] = q /\ s[i + 2] = q
             closing == IF triple
                        THEN {j \in (i + 3)..(Len(s) - 2) :
                                 s[j] = q /\ s[j + 1] = q /\ s[j + 2] = q}
                        ELSE {j \in (i + 1)..Len(s) : s[j] = q}
             first == CHOOSE j \in closing : \A k \in closing : j <= k
         IN  IF closing = {} THEN [ok |-> FALSE, toks |-> <<>>]
             ELSE IF triple
             THEN tokenize(s, first + 3, Append(acc, Tok("str", SubSeq(s, i + 3, first - 1))))
             ELSE tokenize(s, first + 1, Append(acc, Tok("str", SubSeq(s, i + 1, first - 1))))

\* Python values: an int (its digits), a str (its characters), a list or a
\* tuple (its elements), or the exception the evaluation raised at run time
\* (NameError, TypeError, IndexError).
Val(t, v) == [t |-> t, v |-> v]
Raised == Val("raised", <<>>)

Parsed(val, vals, commas, pos) ==
    [ok |-> TRUE, val |-> val, vals |-> vals, commas |-> commas, pos |-> pos]
SyntaxError == [ok |-> FALSE, val |-> Raised, vals |-> <<>>, commas |-> 0, pos |-> 0]

Kind(t, i) == IF i <= Len(t) THEN t[i].k ELSE "end"

RECURSIVE IntOf(_)
IntOf(digits) ==
    IF digits = <<>> THEN 0
    ELSE 10 * IntOf(SubSeq(digits, 1, Len(digits) - 1)) + 1

\* base[index]
subscript(base, index) ==
    IF base.t = "raised" \/ index.t = "raised" THEN Raised
    ELSE IF base.t = "int" \/ index.t # "int" THEN Raised
    ELSE IF IntOf(index.v) >= Len(base.v) THEN Raised
    ELSE IF base.t = "str" THEN Val("str", <<base.v[IntOf(index.v) + 1]>>)
    ELSE base.v[IntOf(index.v) + 1]

RECURSIVE exprs(_, _), more_exprs(_, _, _, _), expr(_, _), trailers(_, _, _), atom(_, _),
          strings(_, _, _)

\* expr (',' expr)* [',']
exprs(t, i) ==
    LET e == expr(t, i)
    IN  IF ~e.ok THEN SyntaxError ELSE more_exprs(t, e.pos, <<e.val>>, 0)

more_exprs(t, i, vals, commas) ==
    IF Kind(t, i) # "," THEN Parsed(Raised, vals, commas, i)
    ELSE IF Kind(t, i + 1) \in {"]", "end"} THEN Parsed(Raised, vals, commas + 1, i + 1)
    ELSE LET e == expr(t, i + 1)
         IN  IF ~e.ok THEN SyntaxError
             ELSE more_exprs(t, e.pos, Append(vals, e.val), commas + 1)

\* atom ('[' exprs ']')*
expr(t, i) ==
    LET a == atom(t, i)
    IN  IF ~a.ok THEN SyntaxError ELSE trailers(t, a.pos, a.val)

trailers(t, i, v) ==
    IF Kind(t, i) # "[" THEN Parsed(v, <<>>, 0, i)
    ELSE LET x == exprs(t, i + 1)
         IN  IF ~x.ok \/ Kind(t, x.pos) # "]" THEN SyntaxError
             ELSE trailers(t, x.pos + 1,
                           subscript(v, IF x.commas = 0 THEN x.vals[1]
                                        ELSE Val("tuple", x.vals)))

atom(t, i) ==
    IF Kind(t, i) = "num" THEN Parsed(Val("int", t[i].v), <<>>, 0, i + 1)
    ELSE IF Kind(t, i) = "name" THEN Parsed(Raised, <<>>, 0, i + 1)
    ELSE IF Kind(t, i) = "str" THEN strings(t, i, <<>>)
    ELSE IF Kind(t, i) = "[" /\ Kind(t, i + 1) = "]" THEN Parsed(Val("list", <<>>), <<>>, 0, i + 2)
    ELSE IF Kind(t, i) = "["
    THEN LET x == exprs(t, i + 1)
         IN  IF ~x.ok \/ Kind(t, x.pos) # "]" THEN SyntaxError
             ELSE Parsed(Val("list", x.vals), <<>>, 0, x.pos + 1)
    ELSE SyntaxError

strings(t, i, acc) ==
    IF Kind(t, i) = "str" THEN strings(t, i + 1, acc \o t[i].v)
    ELSE Parsed(Val("str", acc), <<>>, 0, i)

\* An exception was raised while the value was built.
RECURSIVE raises(_)
raises(v) ==
    \/ v.t = "raised"
    \/ v.t \in {"list", "tuple"} /\ \E i \in 1..Len(v.v) : raises(v.v[i])

\* eval(text): SyntaxError, an exception at run time, or a value.
py_eval(text) ==
    LET t == tokenize(text, 1, <<>>)
        x == IF t.ok THEN exprs(t.toks, 1) ELSE SyntaxError
        v == IF x.commas = 0 THEN x.vals[1] ELSE Val("tuple", x.vals)
    IN  IF ~x.ok \/ x.pos # Len(t.toks) + 1 THEN [tag |-> "SyntaxError", value |-> Raised]
        ELSE IF raises(v) THEN [tag |-> "raised", value |-> Raised]
        ELSE [tag |-> "value", value |-> v]

\* repr(v) and str(v); a str that holds ' and no " is shown in double quotes.
RECURSIVE repr(_), join(_, _)
repr(v) ==
    IF v.t = "int" THEN v.v
    ELSE IF v.t = "str"
    THEN IF "'" \in Range(v.v) /\ "\"" \notin Range(v.v)
         THEN <<"\"">> \o v.v \o <<"\"">>
         ELSE <<"'">> \o v.v \o <<"'">>
    ELSE <<"[">> \o join(v.v, 1) \o <<"]">>

join(vs, i) ==
    IF i > Len(vs) THEN <<>>
    ELSE IF i = Len(vs) THEN repr(vs[i])
    ELSE repr(vs[i]) \o <<",", SP>> \o join(vs, i + 1)

str(v) == IF v.t = "str" THEN v.v ELSE repr(v)

\* eval(response), the isinstance check, the list comprehension and the
\* except clauses around them.
eval_reply(response) ==
    LET e == py_eval(response)
    IN  IF e.tag = "SyntaxError" THEN Raise(Exc("InvalidQueryError"))
        ELSE IF e.tag = "raised" THEN Raise(Exc("InvalidQueryError"))
        ELSE IF e.value.t # "list" THEN Raise(Exc("InvalidQueryError"))
        ELSE Return([i \in 1..Len(e.value.v) |-> str(e.value.v[i])])

\* suggest_multiple_books on a call that answered content.
multiple_books_reply(content) ==
    eval_reply(replace(message_content(content), <<"'", "s">>, <<"s">>))

\* suggest_multiple_movies on a call that answered content.
multiple_movies_reply(content) == eval_reply(message_content(content))

apply_suggest_multiple_books ==
    /\ call.fn = "none"
    /\ Applied("suggest_multiple_books", multiple_books_reply(call.arg))
    /\ UNCHANGED <<books, book_searches, req, resp, nreq, txn, genre_fetches, inflight>>

apply_suggest_multiple_movies ==
    /\ call.fn = "none"
    /\ Applied("suggest_multiple_movies", multiple_movies_reply(call.arg))
    /\ UNCHANGED <<books, book_searches, req, resp, nreq, txn, genre_fetches, inflight>>

InitList ==
    /\ Untouched
    /\ call \in {[fn |-> "none", arg |-> t, out |-> NotApplied] : t \in ListReplies}

NextList ==
    \/ apply_suggest_multiple_books
    \/ apply_suggest_multiple_movies

SpecList == InitList /\ [][NextList]_vars

\* C22: a reply that is a well-formed bracketed list yields its elements in
\* order, each converted with str(); any other reply of a successful call
\* raises InvalidQueryError; suggest_multiple_books and suggest_multiple_movies
\* know no other outcome.
C22_ListReplyParsing ==
    call.fn \in {"suggest_multiple_books", "suggest_multiple_movies"} =>
        LET e == py_eval(strip(call.arg))
        IN  IF e.tag = "value" /\ e.value.t = "list"
            THEN call.out = Return([i \in 1..Len(e.value.v) |-> str(e.value.v[i])])
            ELSE call.out.tag = "raise" /\ call.out.exc.cls = "InvalidQueryError"

\* C23: every title the completion client returns (the title of
\* suggest_single_book, the result of suggest_single_movie, the elements of the
\* lists of suggest_multiple_books and suggest_multiple_movies) is a non-empty
\* string.
C23_TitlesNonEmpty ==
    call.out.tag = "return" =>
        /\ call.fn = "suggest_single_book" => call.out.value[1] # <<>>
        /\ call.fn = "suggest_single_movie" => call.out.value # <<>>
        /\ call.fn \in {"suggest_multiple_books", "suggest_multiple_movies"} =>
               \A i \in 1..Len(call.out.value) : call.out.value[i] # <<>>

\* The titles a request looks up, one entry per suggestion of the completion.
SuggestedTitles(r) ==
    IF r.op \in {BooksMany, MoviesMany} /\ ListReturned(r) THEN r.completion.value
    ELSE IF r.op = BooksOne /\ r.completion.api = "ok" /\ r.completion.reply = "pair"
    THEN <<r.completion.value[1]>>
    ELSE IF r.op = MoviesOne /\ r.completion.api = "ok" /\ r.completion.reply = "title"
    THEN r.completion.value
    ELSE <<>>

\* C24: within one request the completion API is called at most once, the
\* catalog API at most once per suggested title and the video search at most
\* once per suggested title, whatever these calls answer.
C24_NoRetry ==
    /\ resp.calls.completion <= 1
    /\ resp.calls.catalog <= Len(SuggestedTitles(req))
    /\ resp.calls.trailer <= Len(SuggestedTitles(req))

\* C24 witness: a movie batch of two titles whose catalog calls both failed:
\* each was made once and the request ended.
C24_Witness ==
    /\ req.op = MoviesMany
    /\ Len(SuggestedTitles(req)) = 2
    /\ \A t \in Range(SuggestedTitles(req)) : req.catalog[t] = TMTimeout
    /\ resp.calls = Calls(1, 2, 0, 0, 0)
    /\ resp.status = 404

\* C25: the genre-list endpoint is called at most once in the lifetime of the
\* process, across all movie requests; the mapping, once fetched, stays.
C25_GenreListFetchedOnce == genre_fetches <= 1

(***************************************************************************)
(* A request followed from one upstream call to the next                   *)
(***************************************************************************)
\* The handlers block in their upstream calls: openai.ChatCompletion.create
\* is called with model, temperature, max_tokens and messages; the four
\* requests.get calls pass timeout=10.
TIMEOUT == 10

Upstreams == {"completion", "book catalog", "movie catalog", "genre list", "video search"}

TimeoutOf(upstream) == IF upstream = "completion" THEN NoTimeout ELSE TIMEOUT

CatalogOf(op) == IF op \in {BooksOne, BooksMany} THEN "book catalog" ELSE "movie catalog"

Batch(op) == op \in {BooksMany, MoviesMany}

\* The handler of op waits for upstream; left titles follow the current one,
\* found titles were resolved before it.
Waiting(op, upstream, left, found, cached) ==
    [op |-> op, waits |-> upstream, timeout |-> TimeoutOf(upstream), left |-> left,
     found |-> found, cached |-> cached, status |-> 0, responses |-> 0]

\* The handler of op returned or raised: status is to be sent.
Answering(op, status) ==
    [op |-> op, waits |-> "respond", timeout |-> NoTimeout, left |-> 0, found |-> 0,
     cached |-> FALSE, status |-> status, responses |-> 0]

\* The handler is through with the current title, resolved or not.
AfterTitle(f, resolved) ==
    LET found == IF resolved THEN f.found + 1 ELSE f.found
    IN  IF ~Batch(f.op) THEN Answering(f.op, IF resolved THEN 200 ELSE 503)
        ELSE IF f.left > 0 THEN Waiting(f.op, CatalogOf(f.op), f.left - 1, found, f.cached)
        ELSE Answering(f.op, IF found = 0 THEN 404 ELSE 200)

\* Where the handler can be after the call it waits for has ended, with an
\* answer of the upstream (ok) or with an exception of the client.
AfterCall(f, ok) ==
    IF f.waits = "completion"
    THEN IF ~ok THEN {Answering(f.op, 429), Answering(f.op, 503)}
         ELSE {Answering(f.op, 400)}
              \cup (IF Batch(f.op) THEN {Answering(f.op, 404)} ELSE {})
              \cup {Waiting(f.op, CatalogOf(f.op), n - 1, 0, FALSE) :
                        n \in 1..(IF Batch(f.op) THEN MaxTitles ELSE 1)}
    ELSE IF f.waits = "book catalog"
    THEN IF ~ok THEN {AfterTitle(f, FALSE)}
         ELSE IF Batch(f.op) THEN {AfterTitle(f, TRUE), AfterTitle(f, FALSE)}
         ELSE {Answering(f.op, 200), Answering(f.op, 404)}
    ELSE IF f.waits = "movie catalog"
    THEN IF ~ok THEN {AfterTitle(f, FALSE)}
         ELSE {AfterTitle(f, FALSE),
               Waiting(f.op, "video search", f.left, f.found, f.cached)}
              \cup (IF f.cached THEN {}
                    ELSE {Waiting(f.op, "genre list", f.left, f.found, FALSE)})
    ELSE IF f.waits = "genre list"
    THEN {Waiting(f.op, "video search", f.left, f.found, TRUE)}
    ELSE IF ~ok THEN {AfterTitle(f, TRUE)}
    ELSE {AfterTitle(f, TRUE), AfterTitle(f, FALSE)}

\* A request arrives: validation, then the handler up to its first upstream call.
receive ==
    /\ inflight.waits = "idle"
    /\ nreq' = nreq + 1
    /\ \E op \in {BooksOne, BooksMany, MoviesOne, MoviesMany} :
          \/ inflight' = Answering(op, 422)
          \/ op = BooksMany /\ inflight' = Answering(op, 200)
          \/ inflight' = Waiting(op, "completion", 0, 0, FALSE)
    /\ UNCHANGED <<books, book_searches, req, resp, txn, genre_fetches, call>>

\* The upstream answers the call, or the connection breaks.
upstream_answers ==
    /\ inflight.waits \in Upstreams
    /\ \E ok \in BOOLEAN : inflight' \in AfterCall(inflight, ok)
    /\ UNCHANGED <<books, book_searches, req, resp, nreq, txn, genre_fetches, call>>

\* The timeout the call was given runs out: the client raises.
timeout_expires ==
    /\ inflight.waits \in Upstreams
    /\ inflight.timeout # NoTimeout
    /\ inflight' \in AfterCall(inflight, FALSE)
    /\ UNCHANGED <<books, book_searches, req, resp, nreq, txn, genre_fetches, call>>

\* The response of the handler, or of the exception handler, is sent.
respond ==
    /\ inflight.waits = "respond"
    /\ inflight' = [inflight EXCEPT !.waits = "idle", !.responses = @ + 1]
    /\ UNCHANGED <<books, book_searches, req, resp, nreq, txn, genre_fetches, call>>

NextLive ==
    \/ nreq < MaxRequests /\ receive
    \/ upstream_answers
    \/ timeout_expires
    \/ respond

\* A call with a timeout ends when the timeout runs out at the latest, and a
\* handler that has its result answers; nothing obliges an upstream to answer.
SpecLive == Init /\ [][NextLive]_vars /\ WF_vars(timeout_expires) /\ WF_vars(respond)

\* C26: every upstream call is made with a timeout, so every request on every
\* endpoint ends with exactly one response, even if an upstream never answers.
C26_BoundedCallsAndTermination ==
    /\ [](inflight.waits \in Upstreams => inflight.timeout # NoTimeout)
    /\ [](inflight.responses <= 1)
    /\ (inflight.waits # "idle") ~> (inflight.waits = "idle" /\ inflight.responses = 1)

(***************************************************************************)
(* The book catalog resolver on every answer of the volumes endpoint       *)
(***************************************************************************)
CatalogResponses ==
    { GBResponse(transport, totalItems, hasItems, authorsKind, authors, thumbnail, previewLink) :
        transport \in {"ok", "timeout", "http error"},
        totalItems \in {0, 1},
        hasItems \in BOOLEAN,
        authorsKind \in {"absent", "list", "null"},
        authors \in {<<>>, <<"X", "Y">>},
        thumbnail \in {Absent, "thumb.png"},
        previewLink \in {Absent, "preview.html"} }

apply_get_book_details ==
    /\ call.fn = "none"
    /\ Applied("get_book_details", get_book_details(call.arg.title, call.arg.response))
    /\ UNCHANGED <<books, book_searches, req, resp, nreq, txn, genre_fetches, inflight>>

InitCatalog ==
    /\ Untouched
    /\ call \in {[fn |-> "none", arg |-> [title |-> t, response |-> r], out |-> NotApplied] :
                    t \in Titles, r \in CatalogResponses}

NextCatalog == apply_get_book_details

SpecCatalog == InitCatalog /\ [][NextCatalog]_vars

\* C27: the book catalog resolver gives "not found" for an answer with zero
\* results; for an answer with a result a record with the queried title, the
\* first author or "Unknown Author", the thumbnail or the placeholder, the
\* preview link or ""; and ExternalAPIError for a transport failure and for
\* any answer of another shape (an empty author list, a count without items,
\* authors that are no list).
C27_BookResolverOutcomes ==
    call.fn = "get_book_details" =>
        LET r == call.arg.response
            expected == r.hasItems /\ (r.authorsKind = "absent"
                                       \/ (r.authorsKind = "list" /\ r.authors # <<>>))
        IN  IF r.transport # "ok"
            THEN call.out.tag = "raise" /\ call.out.exc.cls = "ExternalAPIError"
            ELSE IF r.totalItems = 0 THEN call.out = ReturnNone
            ELSE IF expected
            THEN call.out =
                   Return([title |-> call.arg.title,
                           author |-> IF r.authorsKind = "absent" THEN UnknownAuthor
                                      ELSE r.authors[1],
                           cover_image_url |-> IF r.thumbnail = Absent THEN CoverPlaceholder
                                               ELSE r.thumbnail,
                           preview_url |-> IF r.previewLink = Absent THEN ""
                                           ELSE r.previewLink])
            ELSE call.out.tag = "raise" /\ call.out.exc.cls = "ExternalAPIError"

\* Every record that holds books before a step is the same record after it.
FilledRecordsKept(old, new) ==
    \A i \in 1..Len(old) :
        old[i].books # <<>> => Len(new) >= i /\ new[i] = old[i]

CommitsStoredTitle(w) ==
    /\ txn[w].pc = "prepared"
    /\ \E i \in 1..Len(txn[w].pending) : \E j \in 1..Len(books) :
          books[j].title = txn[w].pending[i].title

\* C29: when two book suggest-many requests interleave and both resolve a
\* title that has no Book row yet, the books table never holds two rows with
\* that title; the request that commits second stores nothing (no Book row,
\* no Book Search record) and is answered 500.
C29_ConcurrentSameTitle ==
    /\ [](\A i, j \in 1..Len(books) : books[i].title = books[j].title => i = j)
    /\ [][\A w \in Workers :
             (CommitsStoredTitle(w) /\ txn'[w].pc = "done")
                => /\ books' = books
                   /\ book_searches' = book_searches
                   /\ txn'[w].status = 500]_vars

\* C29 witness: two processes asked different queries and resolved the same
\* new title; one was answered 200, the other 500, and the store holds the
\* title once, under the first query only.
C29_Witness ==
    /\ \E v, w \in Workers :
          /\ txn[v].pc = "done" /\ txn[v].status = 200
          /\ txn[w].pc = "done" /\ txn[w].status = 500
          /\ Len(txn[w].query) >= MIN_LENGTH
          /\ txn[w].query # txn[v].query
          /\ book_searches[1].query = txn[v].query
    /\ Len(books) = 1
    /\ Len(book_searches) = 1
    /\ book_searches[1].books = <<1>>

\* C30: when the first genre-list fetch of a resolver instance fails, the
\* instance does not call the endpoint again, names every genre of every
\* movie it resolves "Unknown Genre", and resolves the movies all the same.
C30_GenreFailureSticky ==
    (req.op \in {MoviesOne, MoviesMany} /\ req.genre = "timeout")
    => /\ resp.calls.genre = 1
       /\ \A i \in 1..Len(resp.body) : \A k \in 1..Len(resp.body[i].genre_names) :
             resp.body[i].genre_names[k] = "Unknown Genre"
       /\ \A p \in 1..Len(SuggestedTitles(req)) :
             LET t == SuggestedTitles(req)[p]
             IN  (Resolves(req.catalog[t]) /\ get_trailer_url(t, req.trailer[t]).tag = "return")
                    => resp.status = 200 /\ p \in Range(resp.kept)

\* C30 witness: the genre list could not be fetched; both movies of the batch,
\* each with genre ids, were returned with unknown genres after one fetch.
C30_Witness ==
    /\ req.op = MoviesMany
    /\ req.genre = "timeout"
    /\ resp.calls.genre = 1
    /\ Len(resp.body) = 2
    /\ req.completion.value[1] # req.completion.value[2]
    /\ \A i \in 1..2 : resp.body[i].genre_names = <<"Unknown Genre", "Unknown Genre">>

====
